---- MODULE Spec2Model ----
(***************************************************************************)
(* A model of paullgdc/protohackers: the byte-oriented JSON codec          *)
(* (utils/src/json.rs), the thread-per-connection server shell             *)
(* (utils/src/server.rs) and the prime-check handler                       *)
(* (p01_prime_time/src/main.rs).                                           *)
(*                                                                         *)
(* Bytes are integers 0..255, byte buffers are sequences of bytes, and a   *)
(* Rust offset p (0-based) reads the element p + 1 of the sequence.        *)
(***************************************************************************)
EXTENDS Integers, Sequences, FiniteSets, TLC

(***************************************************************************)
(* Bytes the code names in its patterns and literals.                      *)
(***************************************************************************)
LBRACE == 123
RBRACE == 125
LBRACK == 91
RBRACK == 93
QUOTE == 34
COLON == 58
COMMA == 44
DIGIT0 == 48
DIGIT9 == 57
CH_t == 116
CH_f == 102
CH_n == 110
CH_b == 98
CH_r == 114
CH_u == 117
SP == 32
NL == 10
TAB == 9
CR == 13
BACKSLASH == 92
SLASH == 47
DOT == 46
MINUS == 45
BACKSPACE == 8
FORMFEED == 12

LitNull == <<110, 117, 108, 108>>
LitTrue == <<116, 114, 117, 101>>
LitFalse == <<102, 97, 108, 115, 101>>

\* Option<u8>::None of Cursor::current.
None == -1

\* The value of a function of one argument.  Given([v \in {x} |-> e]) is e
\* with v bound to the value of x: LET v == x IN e, x being evaluated once.
Given(f) == CHOOSE y \in {CHOOSE z \in {g[v] : v \in DOMAIN g} : TRUE : g \in {f}} : TRUE

RECURSIVE Concat(_)
Concat(ss) == IF ss = <<>> THEN <<>> ELSE Head(ss) \o Concat(Tail(ss))

(***************************************************************************)
(* Cursor (json.rs:19-150).  A cursor is its offset pos and, for the       *)
(* record, the offsets it took after each step that moved or inspected it. *)
(***************************************************************************)
NewCursor == [pos |-> 0, trace |-> <<>>]

Moved(c, op, p) == [pos |-> p, trace |-> Append(c.trace, [op |-> op, pos |-> p])]

current(buf, c) == IF c.pos < Len(buf) THEN buf[c.pos + 1] ELSE None

advance(c) == Moved(c, "advance", c.pos + 1)

IsDigit(b) == DIGIT0 <= b /\ b <= DIGIT9

IsTokenByte(b) ==
    \/ b \in {LBRACE, RBRACE, LBRACK, RBRACK, QUOTE, COLON, COMMA, CH_t, CH_f, CH_n}
    \/ IsDigit(b)

IsWhitespace(b) == b \in {SP, NL, TAB, CR}

\* The loop of next_token from offset p: <<token, offset>>.
RECURSIVE next_token_loop(_, _)
next_token_loop(buf, p) ==
    IF p >= Len(buf) THEN <<0, p>>
    ELSE IF IsTokenByte(buf[p + 1]) THEN <<buf[p + 1], p>>
    ELSE IF IsWhitespace(buf[p + 1]) THEN next_token_loop(buf, p + 1)
    ELSE <<0, p>>

next_token(buf, c) ==
    Given([r \in {next_token_loop(buf, c.pos)} |->
      [tok |-> r[1], cur |-> Moved(c, "next_token", r[2])]])

(***************************************************************************)
(* Results.  kind is "Ok", "Err" (an Error {msg, pos}) or "Panic" (an      *)
(* out-of-range slice or index, which aborts the call by unwinding).       *)
(***************************************************************************)
\* The result of a step that yields no Value.
NoFloat == [cls |-> "fin", neg |-> FALSE, m |-> 0, e |-> 0]
NoValue ==
    [t |-> "None", n |-> 0, b |-> FALSE, s |-> <<>>, f |-> NoFloat, items |-> <<>>, map |-> {}]
NoError == [msg |-> "", pos |-> 0]

Ok(v, c) == [kind |-> "Ok", val |-> v, err |-> NoError, cur |-> c]
Err(m, c) == [kind |-> "Err", val |-> NoValue, err |-> [msg |-> m, pos |-> c.pos], cur |-> c]
Panic(c) == [kind |-> "Panic", val |-> NoValue, err |-> NoError, cur |-> c]

\* &buf[a..b]: the bytes at offsets a..b-1; it panics unless a <= b <= len.
SliceInRange(buf, a, b) == a <= b /\ b <= Len(buf)
Slice(buf, a, b) == SubSeq(buf, a + 1, b)

\* The loop of consume_str from offset p: where it stopped, and how.
RECURSIVE consume_str_loop(_, _, _, _)
consume_str_loop(buf, p, escape, escaped) ==
    LET b == IF p < Len(buf) THEN buf[p + 1] ELSE None
    IN  IF b = BACKSLASH /\ ~escape THEN consume_str_loop(buf, p + 1, TRUE, TRUE)
        ELSE IF b = QUOTE /\ ~escape THEN [closed |-> TRUE, pos |-> p, escaped |-> escaped]
        ELSE IF b = None THEN [closed |-> FALSE, pos |-> p, escaped |-> escaped]
        ELSE consume_str_loop(buf, p + 1, FALSE, escaped)

\* consume_str taking the end of the data for the end of the string.
consume_str_eof_break(buf, c) ==
    IF current(buf, c) # QUOTE
    THEN Err("Couldn't parse string. Missed first \"", c)
    ELSE Given([l \in {consume_str_loop(buf, c.pos + 1, FALSE, FALSE)} |->
         IF SliceInRange(buf, c.pos + 1, l.pos)
         THEN Ok([span |-> Slice(buf, c.pos + 1, l.pos), flag |-> l.escaped],
                 Moved(c, "consume_str", l.pos + 1))
         ELSE Panic(Moved(c, "consume_str", l.pos + 1))])

\* Ok carries val = [span, flag]: the raw span and whether it holds an escape.
consume_str(buf, c) ==
    IF current(buf, c) # QUOTE
    THEN Err("Couldn't parse string. Missed first \"", c)
    ELSE Given([l \in {consume_str_loop(buf, c.pos + 1, FALSE, FALSE)} |->
         IF ~l.closed
         THEN Err("Unexpected data end while parsing string", Moved(c, "consume_str", l.pos))
         ELSE IF SliceInRange(buf, c.pos + 1, l.pos)
         THEN Ok([span |-> Slice(buf, c.pos + 1, l.pos), flag |-> l.escaped],
                 Moved(c, "consume_str", l.pos + 1))
         ELSE Panic(Moved(c, "consume_str", l.pos + 1))])

\* The loop of consume_number from offset p: <<offset, float>>.
RECURSIVE consume_number_loop(_, _, _)
consume_number_loop(buf, p, float) ==
    IF p >= Len(buf) THEN <<p, float>>
    ELSE IF IsDigit(buf[p + 1]) THEN consume_number_loop(buf, p + 1, float)
    ELSE IF buf[p + 1] = DOT THEN consume_number_loop(buf, p + 1, TRUE)
    ELSE <<p, float>>

consume_number(buf, c) ==
    LET first == IF current(buf, c) = None THEN 0 ELSE current(buf, c)
    IN  IF ~IsDigit(first)
        THEN Err("Couldn't parse number. Missed first digit", c)
        ELSE Given([l \in {consume_number_loop(buf, c.pos, FALSE)} |->
             IF SliceInRange(buf, c.pos, l[1])
             THEN Ok([span |-> Slice(buf, c.pos, l[1]), flag |-> l[2]],
                     Moved(c, "consume_number", l[1]))
             ELSE Panic(Moved(c, "consume_number", l[1]))])

\* consume_lit without its length check.
consume_lit_unchecked(buf, c, lit) ==
    IF ~SliceInRange(buf, c.pos, c.pos + Len(lit)) THEN Panic(c)
    ELSE IF Slice(buf, c.pos, c.pos + Len(lit)) # lit
    THEN Err("Unexpected value for litteral", c)
    ELSE Ok(NoValue, Moved(c, "consume_lit", c.pos + Len(lit)))

consume_lit(buf, c, lit) ==
    IF c.pos + Len(lit) > Len(buf)
    THEN Err("Unexpected data end while parsing litteral", c)
    ELSE IF ~SliceInRange(buf, c.pos, c.pos + Len(lit)) THEN Panic(c)
    ELSE IF Slice(buf, c.pos, c.pos + Len(lit)) # lit
    THEN Err("Unexpected value for litteral", c)
    ELSE Ok(NoValue, Moved(c, "consume_lit", c.pos + Len(lit)))

consume_null(buf, c) == consume_lit(buf, c, LitNull)
consume_true(buf, c) == consume_lit(buf, c, LitTrue)
consume_false(buf, c) == consume_lit(buf, c, LitFalse)

(***************************************************************************)
(* Value (json.rs:180-189): a record with the variant t and one field per  *)
(* payload, the fields of the other variants left blank: s the bytes of a  *)
(* String, n an Int, b a Bool, items the elements of an Array, map the     *)
(* pairs <<key, value>> of an Object (one pair per key), and f a Float as  *)
(* the decimal it displays as: [cls, neg, m, e] is (-1)^neg * m / 10^e     *)
(* when cls = "fin" (m carrying no trailing zero when e > 0), an infinity  *)
(* when cls = "inf", not-a-number when cls = "nan".                        *)
(***************************************************************************)
VString(s) == [NoValue EXCEPT !.t = "String", !.s = s]
VInt(n) == [NoValue EXCEPT !.t = "Int", !.n = n]
VFloat(f) == [NoValue EXCEPT !.t = "Float", !.f = f]
VBool(b) == [NoValue EXCEPT !.t = "Bool", !.b = b]
VNull == [NoValue EXCEPT !.t = "Null"]
VArray(a) == [NoValue EXCEPT !.t = "Array", !.items = a]
VObject(o) == [NoValue EXCEPT !.t = "Object", !.map = o]

\* HashMap::new, HashMap::insert (the last write of a key wins) and
\* HashMap::get.
EmptyMap == {}
MapInsert(o, key, value) == {p \in o : p[1] # key} \cup {<<key, value>>}
MapKeys(o) == {p[1] : p \in o}
MapGet(o, key) == (CHOOSE p \in o : p[1] = key)[2]

\* str::from_utf8 / String::from_utf8 succeed.  The model's bytes are ASCII
\* or 0xFF, and a byte above 0x7F that is 0xFF is in no UTF-8 text.
IsUtf8(s) == \A i \in 1..Len(s) : s[i] < 128

\* The second pass of parse_str over the raw span s from index i (1-based):
\* the unescaped bytes, or the error it returns.
RECURSIVE unescape_loop(_, _, _, _)
unescape_loop(s, i, next_char_escaped, unescaped) ==
    IF i > Len(s) THEN [ok |-> TRUE, bytes |-> unescaped, msg |-> ""]
    ELSE LET ch == s[i]
         IN  IF ~next_char_escaped
             THEN IF ch = BACKSLASH
                  THEN unescape_loop(s, i + 1, TRUE, unescaped)
                  ELSE unescape_loop(s, i + 1, FALSE, Append(unescaped, ch))
             ELSE IF ch \in {QUOTE, BACKSLASH, SLASH}
                  THEN unescape_loop(s, i + 1, FALSE, Append(unescaped, ch))
             ELSE IF ch = CH_b
                  THEN unescape_loop(s, i + 1, FALSE, Append(unescaped, BACKSPACE))
             ELSE IF ch = CH_f
                  THEN unescape_loop(s, i + 1, FALSE, Append(unescaped, FORMFEED))
             ELSE IF ch = CH_n
                  THEN unescape_loop(s, i + 1, FALSE, Append(unescaped, NL))
             ELSE IF ch = CH_r
                  THEN unescape_loop(s, i + 1, FALSE, Append(unescaped, CR))
             ELSE IF ch = CH_t
                  THEN unescape_loop(s, i + 1, FALSE, Append(unescaped, TAB))
             ELSE IF ch = CH_u
                  THEN [ok |-> FALSE, bytes |-> <<>>, msg |-> "Hex character not handled"]
             ELSE [ok |-> FALSE, bytes |-> <<>>, msg |-> "Unrecognised escape sequence"]

\* parse_str without its second pass: the raw span taken for the string.
parse_str_raw(buf, c) ==
    Given([r \in {consume_str(buf, c)} |->
         IF r.kind # "Ok" THEN r
         ELSE IF ~IsUtf8(r.val.span) THEN Err("String wasn't utf8 encoded", r.cur)
         ELSE Ok(r.val.span, r.cur)])

\* Ok carries the string's bytes.
parse_str(buf, c) ==
    Given([r \in {consume_str(buf, c)} |->
         IF r.kind # "Ok" THEN r
         ELSE IF r.val.flag
         THEN Given([u \in {unescape_loop(r.val.span, 1, FALSE, <<>>)} |->
                   IF ~u.ok THEN Err(u.msg, r.cur)
                   ELSE IF ~IsUtf8(u.bytes) THEN Err("String wasn't utf8 encoded", r.cur)
                   ELSE Ok(u.bytes, r.cur)])
         ELSE IF ~IsUtf8(r.val.span) THEN Err("String wasn't utf8 encoded", r.cur)
         ELSE Ok(r.val.span, r.cur)])

(***************************************************************************)
(* str::parse::<i64> and str::parse::<f64> on a run of digits and dots     *)
(* that starts with a digit (what consume_number hands over).              *)
(***************************************************************************)
I64MaxDigits == <<57, 50, 50, 51, 51, 55, 50, 48, 51, 54, 56, 53, 52, 55, 55, 53, 56, 48, 55>>

RECURSIVE StripZeros(_)
StripZeros(s) ==
    IF Len(s) > 1 /\ Head(s) = DIGIT0 THEN StripZeros(Tail(s)) ELSE s

\* s <= t for two digit strings of the same length.
RECURSIVE DigitsLeq(_, _)
DigitsLeq(s, t) ==
    IF s = <<>> THEN TRUE
    ELSE IF Head(s) # Head(t) THEN Head(s) < Head(t)
    ELSE DigitsLeq(Tail(s), Tail(t))

FitsI64(s) ==
    LET z == StripZeros(s)
    IN  \/ Len(z) < Len(I64MaxDigits)
        \/ Len(z) = Len(I64MaxDigits) /\ DigitsLeq(z, I64MaxDigits)

RECURSIVE DecValue(_, _)
DecValue(s, acc) ==
    IF s = <<>> THEN acc ELSE DecValue(Tail(s), acc * 10 + (Head(s) - DIGIT0))

IntFromStr(s) ==
    IF \A i \in 1..Len(s) : IsDigit(s[i])
    THEN IF FitsI64(s) THEN [ok |-> TRUE, v |-> DecValue(s, 0)] ELSE [ok |-> FALSE, v |-> 0]
    ELSE [ok |-> FALSE, v |-> 0]

RECURSIVE Normalize(_, _)
Normalize(m, e) ==
    IF e > 0 /\ m % 10 = 0 THEN Normalize(m \div 10, e - 1) ELSE <<m, e>>

Finite(neg, m, e) ==
    LET n == Normalize(m, e) IN [cls |-> "fin", neg |-> neg, m |-> n[1], e |-> n[2]]

Infinity(neg) == [cls |-> "inf", neg |-> neg, m |-> 0, e |-> 0]

FloatFromStr(s) ==
    LET dots == {i \in 1..Len(s) : s[i] = DOT}
    IN  IF Cardinality(dots) # 1 \/ Len(s) < 2
        THEN [ok |-> FALSE, v |-> NoFloat]
        ELSE LET d == CHOOSE i \in dots : TRUE
                 digits == SubSeq(s, 1, d - 1) \o SubSeq(s, d + 1, Len(s))
             IN  [ok |-> TRUE, v |-> Finite(FALSE, DecValue(digits, 0), Len(s) - d)]

parse_number(buf, c) ==
    Given([r \in {consume_number(buf, c)} |->
         IF r.kind # "Ok" THEN r
         ELSE IF r.val.flag
         THEN Given([f \in {FloatFromStr(r.val.span)} |->
                   IF f.ok THEN Ok(VFloat(f.v), r.cur)
                   ELSE Err("Wasn't able to parse number as float", r.cur)])
         ELSE Given([n \in {IntFromStr(r.val.span)} |->
                   IF n.ok THEN Ok(VInt(n.v), r.cur)
                   ELSE Err("Wasn't able to parse number as integer", r.cur)])])

parse_null(buf, c) == consume_null(buf, c)

parse_true(buf, c) ==
    Given([r \in {consume_true(buf, c)} |-> IF r.kind = "Ok" THEN Ok(TRUE, r.cur) ELSE r])

parse_false(buf, c) ==
    Given([r \in {consume_false(buf, c)} |-> IF r.kind = "Ok" THEN Ok(FALSE, r.cur) ELSE r])

RECURSIVE _parse_json(_, _)
RECURSIVE parse_array_loop(_, _, _)
RECURSIVE parse_object_loop(_, _, _)

\* The loop of parse_array with the elements pushed so far.
parse_array_loop(buf, c, array) ==
    Given([t \in {next_token(buf, c)} |->
    IF t.tok = RBRACK THEN Ok(array, advance(t.cur))
    ELSE Given([r \in {_parse_json(buf, t.cur)} |->
         IF r.kind # "Ok" THEN r
         ELSE Given([t2 \in {next_token(buf, r.cur)} |->
              IF t2.tok = COMMA
              THEN parse_array_loop(buf, advance(t2.cur), Append(array, r.val))
              ELSE IF t2.tok = RBRACK
              THEN Ok(Append(array, r.val), advance(t2.cur))
              ELSE Err("Unexpected token when parsing array", t2.cur)])])])

parse_array(buf, c) == parse_array_loop(buf, advance(c), <<>>)

\* The loop of parse_object with the map built so far.
parse_object_loop(buf, c, obj) ==
    Given([t \in {next_token(buf, c)} |->
    IF t.tok = RBRACE THEN Ok(obj, advance(t.cur))
    ELSE Given([key \in {parse_str(buf, t.cur)} |->
         IF key.kind # "Ok" THEN key
         ELSE Given([sep \in {next_token(buf, key.cur)} |->
              IF sep.tok # COLON
              THEN Err("Unexpcted object key value separator", sep.cur)
              ELSE Given([val \in {_parse_json(buf, advance(sep.cur))} |->
                   IF val.kind # "Ok" THEN val
                   ELSE Given([t2 \in {next_token(buf, val.cur)} |->
                        IF t2.tok = COMMA
                        THEN parse_object_loop(buf, advance(t2.cur),
                                               MapInsert(obj, key.val, val.val))
                        ELSE IF t2.tok = RBRACE
                        THEN Ok(MapInsert(obj, key.val, val.val), advance(t2.cur))
                        ELSE Err("Unexpected token when parsing object", t2.cur)])])])])])

parse_object(buf, c) == parse_object_loop(buf, advance(c), EmptyMap)

\* A sub-parser's Ok result with its payload made the Value of the given
\* variant; a failure passed on.
Wrapped(r, variant) ==
    IF r.kind # "Ok" THEN r
    ELSE CASE variant = "String" -> Ok(VString(r.val), r.cur)
           [] variant = "Bool" -> Ok(VBool(r.val), r.cur)
           [] variant = "Null" -> Ok(VNull, r.cur)
           [] variant = "Object" -> Ok(VObject(r.val), r.cur)
           [] variant = "Array" -> Ok(VArray(r.val), r.cur)

_parse_json(buf, c) ==
    Given([t \in {next_token(buf, c)} |->
    IF t.tok = QUOTE THEN Given([r \in {parse_str(buf, t.cur)} |-> Wrapped(r, "String")])
    ELSE IF IsDigit(t.tok) THEN parse_number(buf, t.cur)
    ELSE IF t.tok = CH_n
    THEN Given([r \in {parse_null(buf, t.cur)} |-> Wrapped(r, "Null")])
    ELSE IF t.tok = CH_t THEN Given([r \in {parse_true(buf, t.cur)} |-> Wrapped(r, "Bool")])
    ELSE IF t.tok = CH_f THEN Given([r \in {parse_false(buf, t.cur)} |-> Wrapped(r, "Bool")])
    ELSE IF t.tok = LBRACE THEN Given([r \in {parse_object(buf, t.cur)} |-> Wrapped(r, "Object")])
    ELSE IF t.tok = LBRACK THEN Given([r \in {parse_array(buf, t.cur)} |-> Wrapped(r, "Array")])
    ELSE IF t.tok = 0 THEN Err("Unexpected message end", t.cur)
    ELSE Err("Unexpected token while parsing message", t.cur)])

parse_json(buf) == _parse_json(buf, NewCursor)

(***************************************************************************)
(* serialize_json (json.rs:369-429).  A HashMap is iterated in an order    *)
(* the program does not choose, so serialize_json(val) is the SET of byte  *)
(* strings the call can append to the buffer, one per order.               *)
(***************************************************************************)
RECURSIVE NatDigits(_)
NatDigits(n) ==
    IF n < 10 THEN <<DIGIT0 + n>> ELSE NatDigits(n \div 10) \o <<DIGIT0 + (n % 10)>>

\* write!(buf, "{}", v) of an i64.
DisplayInt(n) == IF n < 0 THEN <<MINUS>> \o NatDigits(-n) ELSE NatDigits(n)

RECURSIVE Pow10(_)
Pow10(e) == IF e = 0 THEN 1 ELSE 10 * Pow10(e - 1)

\* The last `width` decimal digits of n, zero-padded.
RECURSIVE FracDigits(_, _)
FracDigits(n, width) ==
    IF width = 0 THEN <<>> ELSE FracDigits(n \div 10, width - 1) \o <<DIGIT0 + (n % 10)>>

\* write!(buf, "{}", v) of an f64: no exponent, no ".0" on a whole number.
DisplayFloat(f) ==
    IF f.cls = "nan" THEN <<78, 97, 78>>
    ELSE (IF f.neg THEN <<MINUS>> ELSE <<>>) \o
         (IF f.cls = "inf" THEN <<105, 110, 102>>
          ELSE NatDigits(f.m \div Pow10(f.e)) \o
               (IF f.e > 0 THEN <<DOT>> \o FracDigits(f.m % Pow10(f.e), f.e) ELSE <<>>))

\* The bytes serialize_str writes for the byte ch.
EscapeByte(ch) ==
    IF ch = QUOTE THEN <<BACKSLASH, QUOTE>>
    ELSE IF ch = BACKSLASH THEN <<BACKSLASH, BACKSLASH>>
    ELSE IF ch = SLASH THEN <<SLASH>>
    ELSE IF ch = NL THEN <<BACKSLASH, CH_n>>
    ELSE IF ch = CR THEN <<BACKSLASH, CH_r>>
    ELSE IF ch = TAB THEN <<BACKSLASH, CH_t>>
    ELSE IF ch = BACKSPACE THEN <<BACKSLASH, CH_b>>
    ELSE IF ch = FORMFEED THEN <<BACKSLASH, CH_f>>
    ELSE <<ch>>

serialize_str(s) ==
    <<QUOTE>> \o Concat([i \in 1..Len(s) |-> EscapeByte(s[i])]) \o <<QUOTE>>

RECURSIVE serialize_json(_)
RECURSIVE serialize_array_items(_, _)
RECURSIVE serialize_object_items(_, _, _)

\* The items of the array a from index i on, separators included.
serialize_array_items(a, i) ==
    IF i > Len(a) THEN {<<>>}
    ELSE {(IF i > 1 THEN <<COMMA, SP>> ELSE <<>>) \o x \o rest :
             x \in serialize_json(a[i]), rest \in serialize_array_items(a, i + 1)}

serialize_array(a) == {<<LBRACK>> \o items \o <<RBRACK>> : items \in serialize_array_items(a, 1)}

\* The pairs of o under the keys not yet visited, in every order.
serialize_object_items(o, keys, first) ==
    IF keys = {} THEN {<<>>}
    ELSE UNION {
           {(IF first THEN <<>> ELSE <<COMMA, SP>>) \o serialize_str(k) \o <<COLON, SP>>
                \o x \o rest :
              x \in serialize_json(MapGet(o, k)),
              rest \in serialize_object_items(o, keys \ {k}, FALSE)} : k \in keys}

serialize_object(o) ==
    {<<LBRACE>> \o items \o <<RBRACE>> : items \in serialize_object_items(o, MapKeys(o), TRUE)}

serialize_json(val) ==
    IF val.t = "Int" THEN {DisplayInt(val.n)}
    ELSE IF val.t = "Bool" THEN {IF val.b THEN LitTrue ELSE LitFalse}
    ELSE IF val.t = "Float" THEN {DisplayFloat(val.f)}
    ELSE IF val.t = "Null" THEN {LitNull}
    ELSE IF val.t = "String" THEN {serialize_str(val.s)}
    ELSE IF val.t = "Object" THEN serialize_object(val.map)
    ELSE serialize_array(val.items)

(***************************************************************************)
(* State.                                                                  *)
(*   listener, threads, conns : Server::listen and the connections         *)
(*   buf, value, res          : one call of the codec: the byte buffer,    *)
(*                              the Value serialized into it (if any) and  *)
(*                              what parse_json returned for it            *)
(***************************************************************************)
VARIABLES listener, threads, conns, buf, value, res

vars == <<listener, threads, conns, buf, value, res>>

serverVars == <<listener, threads, conns>>
codecVars == <<buf, value, res>>

(***************************************************************************)
(* The codec on its own: parse_json applied to a byte buffer, and          *)
(* serialize_json followed by parse_json applied to a Value.               *)
(***************************************************************************)
MaxChunks == 4
MaxElems == 2

\* What the input buffers are made of: the bytes the parser tells apart, a
\* byte outside UTF-8, the literals whole and a key with its separator.  An
\* input buffer is the concatenation of at most MaxChunks of them.
Chunks ==
    {<<LBRACE>>, <<RBRACE>>, <<LBRACK>>, <<RBRACK>>, <<QUOTE>>, <<COLON>>, <<COMMA>>,
     <<DIGIT0 + 1>>, <<DOT>>, <<SP>>, <<BACKSLASH>>, <<MINUS>>, <<CH_n>>, <<CH_u>>, <<255>>,
     LitNull, LitTrue, LitFalse, <<QUOTE, MINUS, QUOTE, COLON>>}

NotRun == [kind |-> "NotRun", val |-> NoValue, err |-> NoError, cur |-> NewCursor]
Serialized == [kind |-> "Serialized", val |-> NoValue, err |-> NoError, cur |-> NewCursor]

ServerIdle ==
    /\ listener = [pc |-> "idle", ret |-> "none", spawned |-> 0]
    /\ threads = <<>>
    /\ conns = <<>>

InitParse ==
    /\ ServerIdle
    /\ \E n \in 0..MaxChunks : \E cs \in [1..n -> Chunks] : buf = Concat(cs)
    /\ value = NoValue
    /\ res = NotRun

\* parse_json(&buf) on the input buffer.
ParseInput ==
    /\ value = NoValue
    /\ res.kind = "NotRun"
    /\ res' = parse_json(buf)
    /\ UNCHANGED <<serverVars, buf, value>>

NextParse == ParseInput

SpecParse == InitParse /\ [][NextParse]_vars

(***************************************************************************)
(* parse_json on a string literal: an opening quote and at most MaxStrLen   *)
(* bytes after it, of the bytes parse_str and consume_str tell apart (the  *)
(* quote, the backslash, the escape letters), a digit, a space and a byte  *)
(* outside UTF-8.                                                          *)
(***************************************************************************)
MaxStrLen == 4

StrBytes ==
    {QUOTE, BACKSLASH, SLASH, CH_b, CH_f, CH_n, CH_r, CH_t, CH_u, DIGIT0 + 1, SP, 255}

InitStr ==
    /\ ServerIdle
    /\ \E n \in 0..MaxStrLen : \E bs \in [1..n -> StrBytes] : buf = <<QUOTE>> \o bs
    /\ value = NoValue
    /\ res = NotRun

NextStr == ParseInput

SpecStr == InitStr /\ [][NextStr]_vars

(***************************************************************************)
(* The Values the round trip starts from: every leaf kind, containers of   *)
(* at most MaxElems elements, and containers in containers.                *)
(***************************************************************************)
Strings == {<<>>, <<MINUS>>, <<QUOTE>>, <<BACKSLASH>>, <<SLASH>>, <<NL>>, <<BACKSLASH, CH_n>>}

Ints == {-5, 0, 314}

Floats ==
    {Finite(FALSE, 314, 2), Finite(FALSE, 3, 0), Finite(TRUE, 15, 1),
     Infinity(FALSE)}

Leaves ==
    {VString(s) : s \in Strings} \cup {VInt(n) : n \in Ints} \cup {VFloat(f) : f \in Floats}
        \cup {VBool(TRUE), VBool(FALSE), VNull}

Keys == {<<>>, <<CH_b>>, <<QUOTE>>}

ArraysOver(E) == {VArray(a) : a \in UNION {[1..n -> E] : n \in 0..MaxElems}}

ObjectsOver(E) ==
    {VObject({<<k, o[k]>> : k \in DOMAIN o}) :
        o \in UNION {[K -> E] : K \in {K \in SUBSET Keys : Cardinality(K) <= MaxElems}}}

Nested == {VArray(<<>>), VObject(EmptyMap), VArray(<<VInt(314), VString(<<>>)>>)}

Values == Leaves \cup ArraysOver(Leaves \cup Nested) \cup ObjectsOver(Leaves \cup Nested)

InitRoundTrip ==
    /\ ServerIdle
    /\ value \in Values
    /\ buf = <<>>
    /\ res = NotRun

\* serialize_json(&value, &mut buf) on an empty buffer.
Serialize ==
    /\ value # NoValue
    /\ res.kind = "NotRun"
    /\ \E bytes \in serialize_json(value) : buf' = buf \o bytes
    /\ res' = Serialized
    /\ UNCHANGED <<serverVars, value>>

\* parse_json(&buf) on what serialize_json wrote.
ParseBack ==
    /\ res.kind = "Serialized"
    /\ res' = parse_json(buf)
    /\ UNCHANGED <<serverVars, buf, value>>

NextRoundTrip == Serialize \/ ParseBack

SpecRoundTrip == InitRoundTrip /\ [][NextRoundTrip]_vars

(***************************************************************************)
(* The prime-check handler (p01_prime_time/src/main.rs).                   *)
(***************************************************************************)
KeyMethod == <<109, 101, 116, 104, 111, 100>>
KeyPrime == <<112, 114, 105, 109, 101>>
StrIsPrime == <<105, 115, 80, 114, 105, 109, 101>>
\* b"{\"error\": \"malformed request\"}", what write_error writes.
ErrorBody ==
    <<123, 34, 101, 114, 114, 111, 114, 34, 58, 32, 34, 109, 97, 108, 102, 111, 114, 109,
      101, 100, 32, 114, 101, 113, 117, 101, 115, 116, 34, 125>>

\* ((n as f64).sqrt() as u64): the integer square root.
Isqrt(n) == CHOOSE r \in 0..n : r * r <= n /\ (r + 1) * (r + 1) > n

RECURSIVE is_prime_loop(_, _, _)
is_prime_loop(n, i, last) ==
    IF i > last THEN TRUE
    ELSE IF n % i = 0 THEN FALSE
    ELSE is_prime_loop(n, i + 1, last)

is_prime(n) == IF n < 2 THEN FALSE ELSE is_prime_loop(n, 2, Isqrt(n))

\* req.object().and_then(|o| Some((o.get("method")?.string()?,
\* o.get("prime")?.int()?))): the pair, if there is one.
method_and_prime(req) ==
    IF /\ req.t = "Object"
       /\ KeyMethod \in MapKeys(req.map)
       /\ MapGet(req.map, KeyMethod).t = "String"
       /\ KeyPrime \in MapKeys(req.map)
       /\ MapGet(req.map, KeyPrime).t = "Int"
    THEN [some |-> TRUE, method |-> MapGet(req.map, KeyMethod).s,
          arg |-> MapGet(req.map, KeyPrime).n]
    ELSE [some |-> FALSE, method |-> <<>>, arg |-> 0]

\* The Value the handler serializes for the argument arg.
response_value(arg) ==
    VObject({<<KeyMethod, VString(StrIsPrime)>>, <<KeyPrime, VBool(is_prime(arg))>>})

\* One pass of the handler's loop body after the read, on the line req_buf:
\* what it does (respond and loop, refuse and break, or unwind) and the
\* byte strings it may write (one per order of the response's two fields).
respond(req_buf) ==
    Given([req \in {parse_json(req_buf)} |->
         IF req.kind = "Panic" THEN [does |-> "panic", writes |-> {}]
         ELSE IF req.kind = "Err" THEN [does |-> "refuse", writes |-> {ErrorBody}]
         ELSE Given([mp \in {method_and_prime(req.val)} |->
              IF mp.some /\ mp.method = StrIsPrime
              THEN [does |-> "answer",
                    writes |-> {bytes \o <<NL>> :
                                  bytes \in serialize_json(response_value(mp.arg))}]
              ELSE [does |-> "refuse", writes |-> {ErrorBody}]])])

\* reader.read_until(b'\n', ..) on the bytes received and not yet read: the
\* line through the first newline, or all of them when there is none.
FirstNewline(bytes) ==
    LET S == {i \in 1..Len(bytes) : bytes[i] = NL}
    IN  IF S = {} THEN 0 ELSE CHOOSE i \in S : \A j \in S : i <= j

read_until(bytes) ==
    IF FirstNewline(bytes) = 0 THEN [line |-> bytes, rest |-> <<>>]
    ELSE [line |-> SubSeq(bytes, 1, FirstNewline(bytes)),
          rest |-> SubSeq(bytes, FirstNewline(bytes) + 1, Len(bytes))]

(***************************************************************************)
(* Connections.  conns[i] is the i-th incoming connection and the handler  *)
(* invocation on it:                                                       *)
(*   peer    "none" (the accept failed), "open", "shut" (the peer closed   *)
(*           its sending side), "reset" (the connection broke: reads and   *)
(*           writes on it fail)                                            *)
(*   inbuf   the bytes the peer sent that the handler has not read         *)
(*   sent    how many lines the peer sent (MaxLines bounds the lines all   *)
(*           the peers send together)                                      *)
(*   hpc     where the handler is: "none", "start", "read" (the top of     *)
(*           its loop), "respond" (a line is in req_buf), "running" (the   *)
(*           abstract handler), "returned"                                 *)
(*   req_buf, res_buf  the handler's buffers                               *)
(*   reqs    the lines the handler read, in order                          *)
(*   out     what the handler wrote, one element per write_all             *)
(*   eof     the handler's read returned 0                                 *)
(*   ret     how the invocation ended: "none", "Ok", "Err", "Panic"        *)
(***************************************************************************)
MaxConn == 2
MaxLines == 2

ReqPrefix ==
    <<123, 34, 109, 101, 116, 104, 111, 100, 34, 58, 34, 105, 115, 80, 114, 105, 109, 101,
      34, 44, 34, 112, 114, 105, 109, 101, 34, 58>>

\* The request {"method":"isPrime","prime":n} and its newline, n in decimal.
ReqLine(n) == ReqPrefix \o DisplayInt(n) \o <<RBRACE, NL>>

\* The integers the peers ask about.
WireInts == {-5, 1, 4, 7}

\* What a peer sends at a time: a request, an object that is no request, or
\* bytes that are no JSON and end in no newline.
PeerLines == {ReqLine(n) : n \in WireInts} \cup {<<LBRACE, RBRACE, NL>>, <<104, 101, 121>>}

NewConn(peer) ==
    [peer |-> peer, inbuf |-> <<>>, sent |-> 0, hpc |-> "none", req_buf |-> <<>>,
     res_buf |-> <<>>, reqs |-> <<>>, out |-> <<>>, eof |-> FALSE, ret |-> "none"]

Conns == DOMAIN conns

\* The lines the peers of the first n connections sent.
RECURSIVE LinesSent(_)
LinesSent(n) == IF n = 0 THEN 0 ELSE conns[n].sent + LinesSent(n - 1)

\* The peer of connection i sends a line.
PeerSend(i) ==
    /\ conns[i].peer = "open"
    /\ threads[i].pc # "exited"
    /\ LinesSent(Len(conns)) < MaxLines
    /\ \E line \in PeerLines :
          conns' = [conns EXCEPT ![i].inbuf = @ \o line, ![i].sent = @ + 1]
    /\ UNCHANGED <<listener, threads, codecVars>>

\* The peer of connection i closes its sending side.
PeerShutdown(i) ==
    /\ conns[i].peer = "open"
    /\ threads[i].pc # "exited"
    /\ conns' = [conns EXCEPT ![i].peer = "shut"]
    /\ UNCHANGED <<listener, threads, codecVars>>

\* Connection i breaks.
PeerReset(i) ==
    /\ conns[i].peer \in {"open", "shut"}
    /\ threads[i].pc # "exited"
    /\ conns' = [conns EXCEPT ![i].peer = "reset", ![i].inbuf = <<>>]
    /\ UNCHANGED <<listener, threads, codecVars>>

\* handle, up to its loop: BufReader::new(s.try_clone()?).
HandleStart(i) ==
    /\ conns[i].hpc = "start"
    /\ \E cloned \in BOOLEAN :
          conns' = IF cloned THEN [conns EXCEPT ![i].hpc = "read"]
                   ELSE [conns EXCEPT ![i].hpc = "returned", ![i].ret = "Err"]
    /\ UNCHANGED <<listener, threads, codecVars>>

\* write_error(&mut s)? followed by another turn of the loop.
refused_continuing(c) ==
    IF c.peer = "reset" THEN [c EXCEPT !.hpc = "returned", !.ret = "Err"]
    ELSE [c EXCEPT !.out = Append(@, ErrorBody), !.hpc = "read"]

\* The conn after write_error(&mut s)? and break.
refused(c) ==
    IF c.peer = "reset" THEN [c EXCEPT !.hpc = "returned", !.ret = "Err"]
    ELSE [c EXCEPT !.out = Append(@, ErrorBody), !.hpc = "returned", !.ret = "Ok"]

\* The top of the loop: the buffers are cleared and read_until returns.  It
\* blocks while no newline has come and the peer may still send.
HandleRead(i) ==
    LET c == conns[i]
        cleared == [c EXCEPT !.req_buf = <<>>, !.res_buf = <<>>]
        r == read_until(c.inbuf)
    IN  /\ c.hpc = "read"
        /\ c.peer = "reset" \/ c.peer = "shut" \/ FirstNewline(c.inbuf) # 0
        /\ conns' =
             [conns EXCEPT ![i] =
                IF c.peer = "reset"
                THEN [cleared EXCEPT !.hpc = "returned", !.ret = "Err"]
                ELSE IF r.line = <<>>
                THEN refused([cleared EXCEPT !.eof = TRUE])
                ELSE [cleared EXCEPT !.req_buf = r.line, !.inbuf = r.rest,
                                     !.reqs = Append(@, r.line), !.hpc = "respond"]]
        /\ UNCHANGED <<listener, threads, codecVars>>

\* The conn after the loop body answered with the bytes res_buf.
answered(c, bytes) ==
    IF c.peer = "reset" THEN [c EXCEPT !.res_buf = bytes, !.hpc = "returned", !.ret = "Err"]
    ELSE [c EXCEPT !.res_buf = bytes, !.out = Append(@, bytes), !.hpc = "read"]

\* A req_buf that all the invocations share: the first connection's.
request_shared(cs, i) == cs[1].req_buf

\* The req_buf of the handler invocation on connection i, a local of that
\* invocation.
request_of(cs, i) == cs[i].req_buf

\* The rest of the loop body: parse the line, check its shape, write.
HandleRespond(i) ==
    /\ conns[i].hpc = "respond"
    /\ \E r \in {respond(request_of(conns, i))} :
          IF r.does = "answer"
          THEN \E bytes \in r.writes : conns' = [conns EXCEPT ![i] = answered(@, bytes)]
          ELSE conns' =
                 [conns EXCEPT ![i] =
                    IF r.does = "panic"
                    THEN [@ EXCEPT !.hpc = "returned", !.ret = "Panic"]
                    ELSE refused(@)]
    /\ UNCHANGED <<listener, threads, codecVars>>

(***************************************************************************)
(* A handler the server knows nothing about (the conn_handler of           *)
(* Server): it runs and ends with Ok, with Err or by panicking.            *)
(***************************************************************************)
HandlerOutcomes == {"Ok", "Err", "Panic"}

HandlerBegin(i) ==
    /\ conns[i].hpc = "start"
    /\ conns' = [conns EXCEPT ![i].hpc = "running"]
    /\ UNCHANGED <<listener, threads, codecVars>>

HandlerEnd(i) ==
    /\ conns[i].hpc = "running"
    /\ \E outcome \in HandlerOutcomes :
          conns' = [conns EXCEPT ![i].hpc = "returned", ![i].ret = outcome]
    /\ UNCHANGED <<listener, threads, codecVars>>

(***************************************************************************)
(* Server::listen (utils/src/server.rs:24-53).                             *)
(*   listener  pc: "idle" (listen not yet bound), "listening" (in the      *)
(*             accept loop), "returned"; ret: what listen returned;        *)
(*             spawned: the threads it started                             *)
(*   threads[i]  the thread of the i-th iteration: pc "spawned",           *)
(*             "handling", "exited" or "unwound" (ended by a panic nobody  *)
(*             caught); incoming: the accept's result; peer_addr: what     *)
(*             conn.peer_addr() returned; calls: how many times it invoked *)
(*             the handler; log: the outcome it logged; logged: how many   *)
(*             outcomes it logged                                          *)
(***************************************************************************)
\* TcpListener::bind(addr)?
Bind ==
    /\ listener.pc = "idle"
    /\ \E bound \in BOOLEAN :
          listener' = IF bound THEN [listener EXCEPT !.pc = "listening"]
                      ELSE [listener EXCEPT !.pc = "returned", !.ret = "Err"]
    /\ UNCHANGED <<threads, conns, codecVars>>

\* The listener after an iteration whose accept failed returned the error.
iteration_propagating(l, incoming) ==
    IF incoming = "Err" THEN [l EXCEPT !.pc = "returned", !.ret = "Err"]
    ELSE [l EXCEPT !.spawned = @ + 1]

\* The listener after one iteration of `for incoming in listener.incoming()`.
iteration(l, incoming) == [l EXCEPT !.spawned = @ + 1]

\* One iteration: the next incoming connection (or accept error) is handed
\* to a new thread.
AcceptSpawn ==
    /\ listener.pc = "listening"
    /\ listener.spawned < MaxConn
    /\ \E incoming \in {"Ok", "Err"} :
          /\ listener' = iteration(listener, incoming)
          /\ threads' = Append(threads, [pc |-> "spawned", incoming |-> incoming,
                                         peer_addr |-> "none", calls |-> 0,
                                         log |-> "none", logged |-> 0])
          /\ conns' = Append(conns, NewConn(IF incoming = "Ok" THEN "open" ELSE "none"))
    /\ UNCHANGED codecVars

\* A thread that goes on to the handler whatever conn.peer_addr() returned.
invokes_unresolved(incoming, resolved) == incoming = "Ok"

\* Whether the thread reaches the handler's invocation: neither match
\* returned from the closure.
invokes(incoming, resolved) == incoming = "Ok" /\ resolved

\* The thread up to the handler's invocation: match incoming, conn.peer_addr().
ThreadStart(i) ==
    /\ threads[i].pc = "spawned"
    /\ \E resolved \in BOOLEAN :
          IF threads[i].incoming = "Err"
          THEN /\ threads' = [threads EXCEPT ![i].pc = "exited", ![i].log = "accept_err",
                                             ![i].logged = @ + 1]
               /\ UNCHANGED conns
          ELSE IF ~invokes(threads[i].incoming, resolved)
          THEN /\ threads' = [threads EXCEPT ![i].pc = "exited", ![i].peer_addr = "Err",
                                             ![i].log = "peer_err", ![i].logged = @ + 1]
               /\ UNCHANGED conns
          ELSE /\ threads' = [threads EXCEPT ![i].pc = "handling",
                                             ![i].peer_addr = IF resolved THEN "Ok" ELSE "Err",
                                             ![i].calls = @ + 1]
               /\ conns' = [conns EXCEPT ![i].hpc = "start"]
    /\ UNCHANGED <<listener, codecVars>>

\* What a handler's panic becomes when nothing catches it.
uncaught(ret) == IF ret = "Panic" THEN "Unwind" ELSE ret

\* std::panic::catch_unwind(|| (self.conn_handler)(conn)): the handler's
\* result, a panic included, as a value.
catch_unwind(ret) == ret

\* The thread after the handler: the match on catch_unwind's result.
ThreadFinish(i) ==
    /\ threads[i].pc = "handling"
    /\ conns[i].hpc = "returned"
    /\ threads' =
         [threads EXCEPT ![i] =
            CASE catch_unwind(conns[i].ret) = "Ok" ->
                   [@ EXCEPT !.pc = "exited", !.log = "closed", !.logged = @ + 1]
              [] catch_unwind(conns[i].ret) = "Err" ->
                   [@ EXCEPT !.pc = "exited", !.log = "handler_err", !.logged = @ + 1]
              [] catch_unwind(conns[i].ret) = "Panic" ->
                   [@ EXCEPT !.pc = "exited", !.log = "panicked", !.logged = @ + 1]
              [] OTHER -> [@ EXCEPT !.pc = "unwound"]]
    /\ UNCHANGED <<listener, conns, codecVars>>

InitServer ==
    /\ ServerIdle
    /\ buf = <<>>
    /\ value = NoValue
    /\ res = NotRun

\* The server with the prime-check handler.
Next ==
    \/ Bind
    \/ AcceptSpawn
    \/ \E i \in Conns : ThreadStart(i)
    \/ \E i \in Conns : PeerSend(i)
    \/ \E i \in Conns : PeerShutdown(i)
    \/ \E i \in Conns : PeerReset(i)
    \/ \E i \in Conns : HandleStart(i)
    \/ \E i \in Conns : HandleRead(i)
    \/ \E i \in Conns : HandleRespond(i)
    \/ \E i \in Conns : ThreadFinish(i)

Spec == InitServer /\ [][Next]_vars

\* The server with any handler.
NextServer ==
    \/ Bind
    \/ AcceptSpawn
    \/ \E i \in Conns : ThreadStart(i)
    \/ \E i \in Conns : HandlerBegin(i)
    \/ \E i \in Conns : HandlerEnd(i)
    \/ \E i \in Conns : ThreadFinish(i)

SpecServer == InitServer /\ [][NextServer]_vars

(***************************************************************************)
(* Properties of the server with any handler (SpecServer).                 *)
(***************************************************************************)
\* C1: a panic in one connection's handler is caught at that thread's
\* boundary: no thread ends by an uncaught panic, the thread of a handler
\* that panicked logs the panic when it exits, the accept loop is still
\* running and takes the next connection, and every sibling thread can take
\* its next step, up to the end of its handler and the logging after it.
FaultIsolation ==
    \A i \in Conns :
       /\ threads[i].pc # "unwound"
       /\ conns[i].ret = "Panic" =>
            /\ listener.pc = "listening"
            /\ threads[i].pc = "exited" => threads[i].log = "panicked"
            /\ listener.spawned < MaxConn => ENABLED AcceptSpawn
            /\ \A j \in Conns \ {i} :
                 /\ threads[j].pc = "spawned" => ENABLED ThreadStart(j)
                 /\ conns[j].hpc = "start" => ENABLED HandlerBegin(j)
                 /\ conns[j].hpc = "running" => ENABLED HandlerEnd(j)
                 /\ threads[j].pc = "handling" /\ conns[j].hpc = "returned"
                      => ENABLED ThreadFinish(j)

\* The first connection's handler panicked, the second connection's handler
\* returned Ok, both outcomes are logged and the accept loop is running.
PanicCaughtSiblingClosed ==
    /\ Len(threads) = 2
    /\ conns[1].ret = "Panic" /\ threads[1].log = "panicked"
    /\ conns[2].ret = "Ok" /\ threads[2].log = "closed"
    /\ listener.pc = "listening"

\* C10: an accept that failed costs its own iteration only: its thread logs
\* the error and exits without invoking the handler, and the accept loop is
\* still running and takes the next connection.  listen has returned only
\* with the error of a failed bind, and then no thread was started.
AcceptFailureSkipped ==
    /\ listener.pc = "returned" =>
         listener.ret = "Err" /\ listener.spawned = 0 /\ threads = <<>>
    /\ listener.pc # "returned" => listener.ret = "none"
    /\ \A i \in Conns :
         threads[i].incoming = "Err" =>
            /\ listener.pc = "listening"
            /\ conns[i].hpc = "none"
            /\ threads[i].pc \in {"spawned", "exited"}
            /\ threads[i].pc = "exited" => threads[i].log = "accept_err"
            /\ listener.spawned < MaxConn => ENABLED AcceptSpawn

\* The first accept failed and was logged; the connection that came after
\* it was accepted, handled and closed.
AcceptFailedThenServed ==
    /\ Len(threads) = 2
    /\ threads[1].incoming = "Err" /\ threads[1].log = "accept_err"
    /\ threads[2].incoming = "Ok" /\ threads[2].log = "closed"

\* C12: every iteration of the accept loop has a thread of its own.  A
\* thread invoked the handler once if its accept succeeded and the peer
\* address resolved, and never otherwise; a thread that did not invoke it
\* has exited with the accept error or the peer-address error logged, or
\* has not started.  A thread logs nothing before it exits and has logged
\* exactly one outcome when it has: closed, handler error or panic as the
\* handler ended with Ok, with Err or by panicking.
OneInvocationOneOutcome ==
    /\ Len(threads) = listener.spawned
    /\ Len(conns) = listener.spawned
    /\ \A i \in Conns :
         /\ threads[i].calls = IF threads[i].incoming = "Ok" /\ threads[i].peer_addr = "Ok"
                               THEN 1 ELSE 0
         /\ threads[i].calls = 0 =>
               /\ conns[i].hpc = "none"
               /\ threads[i].pc \in {"spawned", "exited"}
               /\ threads[i].pc = "exited" =>
                     threads[i].log = IF threads[i].incoming = "Err"
                                      THEN "accept_err" ELSE "peer_err"
         /\ threads[i].calls = 1 =>
               /\ conns[i].hpc # "none"
               /\ threads[i].pc \in {"handling", "exited"}
               /\ threads[i].pc = "exited" =>
                     /\ conns[i].hpc = "returned"
                     /\ threads[i].log = CASE conns[i].ret = "Ok" -> "closed"
                                            [] conns[i].ret = "Err" -> "handler_err"
                                            [] conns[i].ret = "Panic" -> "panicked"
                                            [] OTHER -> "none"
         /\ threads[i].logged = IF threads[i].pc = "exited" THEN 1 ELSE 0
         /\ threads[i].pc # "exited" => threads[i].log = "none"

\* The first connection's peer address did not resolve: its thread logged
\* that and exited without invoking the handler.  The second connection's
\* handler was invoked once and returned an error, which was logged.
UnresolvedSkippedErrorLogged ==
    /\ Len(threads) = 2
    /\ threads[1].peer_addr = "Err" /\ threads[1].calls = 0
    /\ threads[1].log = "peer_err" /\ threads[1].logged = 1
    /\ threads[2].calls = 1 /\ conns[2].ret = "Err"
    /\ threads[2].log = "handler_err" /\ threads[2].logged = 1

(***************************************************************************)
(* Properties of the server with the prime-check handler (Spec).           *)
(***************************************************************************)
\* The k-th line the handler of c read has been through the loop body.
Processed(c, k) == k < Len(c.reqs) \/ c.hpc # "respond"

\* P(n) of the protocol: n is at least 2 and no integer from 2 up to the
\* integer square root of n divides it.
P(n) == n >= 2 /\ \A d \in 2..n : d * d <= n => n % d # 0

\* The bytes of "method": "isPrime" and of "prime": b.
FieldMethod == <<QUOTE>> \o KeyMethod \o <<QUOTE, COLON, SP, QUOTE>> \o StrIsPrime \o <<QUOTE>>

FieldPrime(b) ==
    <<QUOTE>> \o KeyPrime \o <<QUOTE, COLON, SP>> \o (IF b THEN LitTrue ELSE LitFalse)

\* The success responses with prime = b: the JSON object of the two fields
\* and nothing else, in either order, and one newline.
SuccessResponses(b) ==
    {<<LBRACE>> \o FieldMethod \o <<COMMA, SP>> \o FieldPrime(b) \o <<RBRACE, NL>>,
     <<LBRACE>> \o FieldPrime(b) \o <<COMMA, SP>> \o FieldMethod \o <<RBRACE, NL>>}

\* v is an object with a string field method equal to "isPrime" and an
\* integer field prime.
IsRequest(v) ==
    /\ v.t = "Object"
    /\ \E m \in v.map : m[1] = KeyMethod /\ m[2].t = "String" /\ m[2].s = StrIsPrime
    /\ \E m \in v.map : m[1] = KeyPrime /\ m[2].t = "Int"

\* The line fails to parse as JSON, or parses to a value that is no request.
Malformed(line) ==
    Given([r \in {parse_json(line)} |-> r.kind = "Err" \/ (r.kind = "Ok" /\ ~IsRequest(r.val))])

\* C2: what was written to a connection is a function of the lines read on
\* that connection: the k-th write is a response of the handler to the k-th
\* line read on the same connection, and the only other write is the one
\* that follows the end of that connection's stream.
CorrelatedResponses ==
    \A i \in Conns :
       /\ Len(conns[i].out) <= Len(conns[i].reqs) + 1
       /\ \A k \in 1..Len(conns[i].out) :
            IF k <= Len(conns[i].reqs)
            THEN conns[i].out[k] \in respond(conns[i].reqs[k]).writes
            ELSE conns[i].eof /\ conns[i].out[k] = ErrorBody

\* Two connections open at once, asked about 7 and about 4, each answered
\* with its own response.
BothAnsweredOwn ==
    /\ Len(conns) = 2
    /\ conns[1].hpc = "read" /\ conns[2].hpc = "read"
    /\ conns[1].reqs = <<ReqLine(7)>> /\ conns[2].reqs = <<ReqLine(4)>>
    /\ Len(conns[1].out) = 1 /\ conns[1].out[1] \in SuccessResponses(TRUE)
    /\ Len(conns[2].out) = 1 /\ conns[2].out[1] \in SuccessResponses(FALSE)

\* C3: once the handler has processed a line that fails to parse or is no
\* request, that line is the last it read, it has returned, and, unless the
\* connection broke under the write, it returned Ok having written the
\* error object as its last write and nowhere before.
MalformedRefusedOnce ==
    \A i \in Conns :
       \A k \in 1..Len(conns[i].reqs) :
          Malformed(conns[i].reqs[k]) /\ Processed(conns[i], k) =>
             /\ k = Len(conns[i].reqs)
             /\ conns[i].hpc = "returned"
             /\ ~conns[i].eof
             /\ conns[i].ret \in {"Ok", "Err"}
             /\ conns[i].ret = "Ok" =>
                  /\ Len(conns[i].out) = k
                  /\ conns[i].out[k] = ErrorBody
                  /\ \A j \in 1..(k - 1) : conns[i].out[j] # ErrorBody
             /\ conns[i].ret = "Err" =>
                  conns[i].peer = "reset" /\ Len(conns[i].out) = k - 1

\* A request was answered, then an object that is no request was refused
\* with the error object and the handler returned.
AnsweredThenRefused ==
    \E i \in Conns :
       /\ conns[i].reqs = <<ReqLine(7), <<LBRACE, RBRACE, NL>>>>
       /\ Len(conns[i].out) = 2
       /\ conns[i].out[1] \in SuccessResponses(TRUE)
       /\ conns[i].out[2] = ErrorBody
       /\ conns[i].hpc = "returned" /\ conns[i].ret = "Ok"

\* C4: every request line {"method":"isPrime","prime":n} the handler has
\* processed on a connection that did not break has its response written,
\* and the response is the success response with prime = P(n).
ConformingAnswered ==
    \A i \in Conns :
       \A k \in 1..Len(conns[i].reqs) :
          \A n \in WireInts :
             conns[i].reqs[k] = ReqLine(n) /\ Processed(conns[i], k) /\ conns[i].peer # "reset" =>
                /\ Len(conns[i].out) >= k
                /\ conns[i].out[k] \in SuccessResponses(P(n))

\* C5: a connection whose peer sent request lines and closed, and whose
\* handler returned Ok after the zero-length read, was written exactly one
\* success response per line read and nothing else.
SequentialExchange ==
    \A i \in Conns :
       conns[i].eof /\ conns[i].hpc = "returned" /\ conns[i].ret = "Ok" =>
          /\ Len(conns[i].out) = Len(conns[i].reqs)
          /\ \A k \in 1..Len(conns[i].out) :
               conns[i].out[k] \in SuccessResponses(TRUE) \cup SuccessResponses(FALSE)

\* C6: a request line whose prime is an integer below 2, once answered, was
\* answered with the success response with prime = false.
BelowTwoAnsweredFalse ==
    \A i \in Conns :
       \A k \in 1..Len(conns[i].reqs) :
          \A n \in {m \in WireInts : m < 2} :
             conns[i].reqs[k] = ReqLine(n) /\ Len(conns[i].out) >= k =>
                conns[i].out[k] \in SuccessResponses(FALSE)

(***************************************************************************)
(* Properties of the parser (SpecParse).                                   *)
(***************************************************************************)
\* The bytes of b that are not whitespace, in order.
Sig(b) == SelectSeq(b, LAMBDA x : ~IsWhitespace(x))

StartsWith(s, prefix) == Len(s) >= Len(prefix) /\ SubSeq(s, 1, Len(prefix)) = prefix

\* The index of the first byte of b that is not whitespace (0 if none).
FirstSigIndex(b) ==
    LET S == {i \in 1..Len(b) : ~IsWhitespace(b[i])}
    IN  IF S = {} THEN 0 ELSE CHOOSE i \in S : \A j \in S : i <= j

\* The quote at index j ends the string opened at index q: an even number of
\* backslashes stands right before it.
ClosingQuote(b, q, j) ==
    /\ j > q
    /\ b[j] = QUOTE
    /\ \E k \in 0..(j - q - 1) :
          /\ \A m \in 1..k : b[j - m] = BACKSLASH
          /\ k = j - q - 1 \/ b[j - k - 1] # BACKSLASH
          /\ k % 2 = 0

WhitespaceOnly(b) == Sig(b) = <<>>

BadFirstByte(b) ==
    /\ Sig(b) # <<>>
    /\ ~(Sig(b)[1] \in {QUOTE, CH_t, CH_f, CH_n, LBRACE, LBRACK} \/ IsDigit(Sig(b)[1]))

UnclosedContainer(b) ==
    /\ Sig(b) # <<>>
    /\ \/ Sig(b)[1] = LBRACK /\ \A i \in 1..Len(b) : b[i] # RBRACK
       \/ Sig(b)[1] = LBRACE /\ \A i \in 1..Len(b) : b[i] # RBRACE

UnterminatedString(b) ==
    /\ Sig(b) # <<>>
    /\ Sig(b)[1] = QUOTE
    /\ \A j \in 1..Len(b) : ~ClosingQuote(b, FirstSigIndex(b), j)

CommaAsElement(b) ==
    \/ StartsWith(Sig(b), <<LBRACK, COMMA>>)
    \/ /\ Len(Sig(b)) >= 4
       /\ Sig(b)[1] = LBRACK /\ IsDigit(Sig(b)[2]) /\ Sig(b)[3] = COMMA /\ Sig(b)[4] = COMMA

KeyWithoutQuote(b) ==
    /\ Len(Sig(b)) >= 2
    /\ Sig(b)[1] = LBRACE
    /\ Sig(b)[2] \notin {QUOTE, RBRACE}

Rejected(b) ==
    \/ WhitespaceOnly(b)
    \/ BadFirstByte(b)
    \/ UnclosedContainer(b)
    \/ UnterminatedString(b)
    \/ CommaAsElement(b)
    \/ KeyWithoutQuote(b)

\* C8: parse_json returns on every buffer without panicking (no slice or index
\* out of range), and returns an Error and no Value for whitespace-only input,
\* a first byte that starts no value, an unclosed container, an unterminated
\* string, a comma where an array element belongs and an object key that does
\* not start with a quote.
ParseTotalAndRejects ==
    res.kind # "NotRun" =>
        /\ res.kind \in {"Ok", "Err"}
        /\ Rejected(buf) => res.kind = "Err" /\ res.val = NoValue

\* C8 witness: the parse of an array with a comma at an element position, after
\* one element, has returned an Error.
ParseRejectedCommaElement ==
    /\ res.kind = "Err"
    /\ CommaAsElement(buf)
    /\ Len(Sig(buf)) >= 4
    /\ IsDigit(Sig(buf)[2])

\* C9: the offset of a returned Error, and every offset the cursor took during
\* the parse, is at most the length of the buffer.
CursorWithinBuffer ==
    res.kind # "NotRun" =>
        /\ res.kind = "Err" => res.err.pos <= Len(buf)
        /\ res.cur.pos <= Len(buf)
        /\ \A k \in 1..Len(res.cur.trace) : res.cur.trace[k].pos <= Len(buf)

\* C9 witness: a parse that consumed a string and a number ended in an Error at
\* the very end of a non-empty buffer.
ErrorAtBufferEnd ==
    /\ res.kind = "Err"
    /\ Len(buf) > 0
    /\ res.err.pos = Len(buf)
    /\ \E k \in 1..Len(res.cur.trace) : res.cur.trace[k].op = "consume_str"
    /\ \E k \in 1..Len(res.cur.trace) : res.cur.trace[k].op = "consume_number"

(***************************************************************************)
(* Properties of string literals (SpecStr).                                *)
(***************************************************************************)
\* The index of the first quote of b, after the opening quote at index 1,
\* that is not escaped (0 if there is none).
LiteralEnd(b) ==
    LET S == {j \in 2..Len(b) : ClosingQuote(b, 1, j)}
    IN  IF S = {} THEN 0 ELSE CHOOSE j \in S : \A k \in S : j <= k

\* The character a backslash and the byte x stand for (None: no escape).
EscapeChar(x) ==
    CASE x \in {QUOTE, BACKSLASH, SLASH} -> x
      [] x = CH_b -> BACKSPACE
      [] x = CH_f -> FORMFEED
      [] x = CH_n -> NL
      [] x = CH_r -> CR
      [] x = CH_t -> TAB
      [] OTHER -> None

\* The span s read from the left: a backslash and the byte after it become
\* EscapeChar of that byte, every other byte is copied.
RECURSIVE Decoded(_)
Decoded(s) ==
    IF s = <<>> THEN <<>>
    ELSE IF s[1] # BACKSLASH THEN <<s[1]>> \o Decoded(Tail(s))
    ELSE IF Len(s) = 1 THEN <<None>>
    ELSE <<EscapeChar(s[2])>> \o Decoded(SubSeq(s, 3, Len(s)))

\* C11: the literal that opens at the first byte of buf ends at the first
\* quote that is not escaped, and the parse fails when there is none.  The
\* parse returns the span between the two quotes with every escape of the
\* list replaced by its character and every other byte copied, leaving the
\* cursor right after the closing quote; it fails when the span holds a
\* backslash followed by u or by any byte outside the list, and when the
\* decoded bytes are no UTF-8 text.
StringLiteralDecoded ==
    res.kind # "NotRun" /\ buf # <<>> /\ buf[1] = QUOTE =>
        IF LiteralEnd(buf) = 0
        THEN res.kind = "Err" /\ res.err.msg = "Unexpected data end while parsing string"
        ELSE LET d == Decoded(SubSeq(buf, 2, LiteralEnd(buf) - 1))
             IN  IF \E i \in 1..Len(d) : d[i] = None
                 THEN /\ res.kind = "Err"
                      /\ res.err.msg \in {"Hex character not handled",
                                          "Unrecognised escape sequence"}
                 ELSE IF \E i \in 1..Len(d) : d[i] >= 128
                 THEN res.kind = "Err" /\ res.err.msg = "String wasn't utf8 encoded"
                 ELSE /\ res.kind = "Ok"
                      /\ res.val = VString(d)
                      /\ res.cur.pos = LiteralEnd(buf)

\* An escaped backslash followed by a quote: the quote ended the string, the
\* string is one backslash and the byte after the closing quote was not read.
EscapedBackslashThenQuote ==
    /\ buf = <<QUOTE, BACKSLASH, BACKSLASH, QUOTE, QUOTE>>
    /\ res.kind = "Ok"
    /\ res.val = VString(<<BACKSLASH>>)
    /\ res.cur.pos = 4

(***************************************************************************)
(* Properties of the round trip (SpecRoundTrip).                           *)
(***************************************************************************)
ParsedBack == value # NoValue /\ res.kind \in {"Ok", "Err", "Panic"}

\* C7 (as claimed): parse_json of what serialize_json wrote for a Value
\* succeeds and returns a Value equal to it.
RoundTrip == ParsedBack => res.kind = "Ok" /\ res.val = value

====
